---- MODULE Spec2Model ----
(***************************************************************************)
(* A model of examples/windows/pywwt_example.ipynb: the notebook's code    *)
(* cells run top to bottom as one script that drives a WorldWide Telescope *)
(* client through pywwt.windows, reads a point cloud from an HDF5 file and *)
(* loads it into a layer.                                                  *)
(*                                                                         *)
(* The script side (statements, their order, their arguments) is taken     *)
(* from the notebook.  The far side of the remote-control boundary (the    *)
(* layer operations and the camera) and the two pywwt.windows utilities    *)
(* are not part of the notebook; they are modelled from what the notebook  *)
(* and the specification say about them.                                   *)
(*                                                                         *)
(* Numbers.  A length is kept exactly as c * F^k, written [c, k], where F  *)
(* is the number of centimeters in a megaparsec (u.Mpc.to(u.cm)); a float  *)
(* literal m * 10^e is written [m, e].                                     *)
(***************************************************************************)
EXTENDS Integers, Sequences, FiniteSets, TLC

VARIABLES
    pc,         \* index into Script of the next statement, Halted, or Len(Script)+1
    awaiting,   \* TRUE while the script is blocked in a remote call
    failedAt,   \* index of the statement that raised, 0 if none did
    executed,   \* history: indices of the statements started, in order
    env,        \* the notebook's namespace: name -> value
    handle,     \* the h5py file object f: "unopened", "open" or "closed"
    opens,      \* history: number of times the file was opened
    closes,     \* history: number of times f.close() ran
    reads,      \* history: <<field, state of the handle at the read>>
    pending,    \* requests sent to the application and not yet handled
    reply,      \* <<>> or <<answer>>: the answer not yet taken by the script
    issued,     \* history: names of the remote calls issued, in order
    appUp,      \* whether a WorldWide Telescope client is running and reachable
    layer,      \* <<>> or <<the layer "minihalo" inside the application>>
    view,       \* the application's current camera view
    target,     \* the view a fly-to is animating toward
    flying,     \* TRUE while a fly-to animation is running
    flySteps,   \* animation frames shown by the current fly-to
    loaded,     \* history: <<properties of the layer when update loaded the data>>
    observed,   \* history: <<the view get_state read, and whether a fly-to was running>>
    file,       \* the HDF5 file: [exists, fields: name -> array]
    client      \* history: <<last layer operation applied with free arguments>>

vars == <<pc, awaiting, failedAt, executed, env, handle, opens, closes, reads,
          pending, reply, issued, appUp, layer, view, target, flying, flySteps,
          loaded, observed, file, client>>

scriptVars == <<pc, awaiting, failedAt, executed, env, handle, opens, closes, reads>>
wireVars   == <<pending, reply, issued>>
appVars    == <<appUp, layer, view, target, flying, flySteps, loaded, observed>>

----------------------------------------------------------------------------
(* Bounds *)

MaxPoints == 2      \* particles in the file
MaxFlySteps == 2    \* animation frames before a fly-to arrives
MaxTableRows == 1   \* rows of a table passed to update in the layer-operation specification
MaxRows == 2        \* rows a layer holds in the layer-operation specification

----------------------------------------------------------------------------
(* Values *)

Str(s) == [type |-> "str", val |-> s]

Len_(c, k) == [c |-> c, k |-> k]          \* the length c * F^k
Sci(m, e) == [m |-> m, e |-> e]           \* the float m * 10^e

Bind(e, n, v) == [m \in (DOMAIN e) \cup {n} |-> IF m = n THEN v ELSE e[m]]

Range(s) == {s[i] : i \in DOMAIN s}

IsPrefix(s, t) == Len(s) <= Len(t) /\ SubSeq(t, 1, Len(s)) = s

----------------------------------------------------------------------------
(* The notebook's literals *)

\* Script with activate moved before set_properties.
ScriptActivateFirst ==
    << "connect", "new_layer", "props_dict", "activate", "set_properties",
       "open", "cm_per_mpc", "read_x", "read_y", "read_z", "read_radio",
       "map_array_to_colors", "convert_xyz_to_spherical", "set_color", "close",
       "update", "get_state" >>

\* Script with f.close() moved before the read of radio.
ScriptCloseEarly ==
    << "connect", "new_layer", "props_dict", "set_properties", "activate",
       "open", "cm_per_mpc", "read_x", "read_y", "read_z", "close", "read_radio",
       "map_array_to_colors", "convert_xyz_to_spherical", "set_color",
       "update", "get_state" >>

\* Script with f.close() moved right after the open.
ScriptCloseFirst ==
    << "connect", "new_layer", "props_dict", "set_properties", "activate",
       "open", "close", "cm_per_mpc", "read_x", "read_y", "read_z", "read_radio",
       "map_array_to_colors", "convert_xyz_to_spherical", "set_color",
       "update", "get_state" >>

\* The statements of the code cells, in cell order (imports left out).
Script ==
    << "connect", "new_layer", "props_dict", "set_properties", "activate",
       "open", "cm_per_mpc", "read_x", "read_y", "read_z", "read_radio",
       "map_array_to_colors", "convert_xyz_to_spherical", "set_color", "close",
       "update", "get_state" >>

\* The statements that are calls across the remote-control boundary.
RemoteCalls ==
    {"connect", "new_layer", "set_properties", "activate", "update", "get_state"}

Halted == 0
Finished == Len(Script) + 1

LayerFrame == "Sky"
LayerName == "minihalo"
\* LayerFields without the color field.
LayerFieldsNoColor == <<"RA", "DEC", "ALT">>
LayerFields == <<"RA", "DEC", "ALT", "color">>

\* props_dict with the scale factor given as the number 16.
props_dict_int_scale ==
    [ CoordinatesType |-> Str("Spherical"),
      MarkerScale     |-> Str("Screen"),
      PointScaleType  |-> Str("Constant"),
      ScaleFactor     |-> [type |-> "int", val |-> "16"],
      ShowFarSide     |-> Str("True"),
      TimeSeries      |-> Str("False"),
      AltUnit         |-> Str("MegaParsecs"),
      RaUnits         |-> Str("Degrees") ]

props_dict ==
    [ CoordinatesType |-> Str("Spherical"),
      MarkerScale     |-> Str("Screen"),
      PointScaleType  |-> Str("Constant"),
      ScaleFactor     |-> Str("16"),
      ShowFarSide     |-> Str("True"),
      TimeSeries      |-> Str("False"),
      AltUnit         |-> Str("MegaParsecs"),
      RaUnits         |-> Str("Degrees") ]

cm_per_mpc == Len_(1, 1)                    \* u.Mpc.to(u.cm) = F

ColorKey == "color"

Cmap == "spectral"
Vmin == Sci(1, -40)
Vmax == Sci(4, -23)

purge_all == TRUE
\* fly_to with latitude and longitude exchanged.
fly_to_swapped == << Sci(-12, 0), Sci(48, 0), Sci(6, 11), Sci(0, 0), Sci(0, 0) >>
fly_to == << Sci(48, 0), Sci(-12, 0), Sci(6, 11), Sci(0, 0), Sci(0, 0) >>

----------------------------------------------------------------------------
(* Arithmetic on the two number forms *)

\* a / b and a * b for lengths c * F^k (b.c divides a.c in every use).
Div(a, b) == Len_(a.c \div b.c, a.k - b.k)
Mul(a, b) == Len_(a.c * b.c, a.k + b.k)

\* Order of two positive floats with mantissas 1..9.
SciLess(a, b) == a.e < b.e \/ (a.e = b.e /\ a.m < b.m)

Clamp(v, lo, hi) == IF SciLess(v, lo) THEN lo ELSE IF SciLess(hi, v) THEN hi ELSE v

\* arr / factor, elementwise (numpy broadcasting).
ArrayTimes(arr, factor) == [i \in DOMAIN arr |-> Mul(arr[i], factor)]
ArrayOver(arr, factor) == [i \in DOMAIN arr |-> Div(arr[i], factor)]

----------------------------------------------------------------------------
(* pywwt.windows utilities *)

\* sqrt(x^2 + y^2 + z^2), kept exactly as sqrt(sq) * F^k; a zero component has
\* no scale of its own, and components of different scales have no such form.
Scales(x, y, z) == {q.k : q \in {p \in {x, y, z} : p.c # 0}}
Hypot(x, y, z) ==
    LET ks == Scales(x, y, z)
        sq == x.c * x.c + y.c * y.c + z.c * z.c
    IN  IF ks = {} THEN [sq |-> 0, k |-> 0, exact |-> TRUE]
        ELSE IF Cardinality(ks) = 1
             THEN [sq |-> sq, k |-> CHOOSE k \in ks : TRUE, exact |-> TRUE]
             ELSE [sq |-> sq, k |-> 0, exact |-> FALSE]

\* Angles are kept as the expressions that define them.
Atan2Deg(y, x) == [fn |-> "atan2", num |-> y.c, den |-> x.c]
AsinDeg(z, r) == [fn |-> "asin", num |-> z.c, den |-> r.sq]

convert_xyz_to_spherical(x, y, z) ==
    [ RA  |-> [i \in DOMAIN x |-> Atan2Deg(y[i], x[i])],
      DEC |-> [i \in DOMAIN x |-> AsinDeg(z[i], Hypot(x[i], y[i], z[i]))],
      ALT |-> [i \in DOMAIN x |-> Hypot(x[i], y[i], z[i])] ]

map_array_to_colors(c, cmap, vmin, vmax) ==
    [i \in DOMAIN c |-> [cmap |-> cmap, at |-> Clamp(c[i], vmin, vmax)]]

----------------------------------------------------------------------------
(* The layer inside the application *)

NoProps == [k \in {} |-> Str("")]

new_layer(frame, name, fields, isActive) ==
    [ frame |-> frame, name |-> name, fields |-> fields,
      props |-> NoProps, active |-> isActive, rows |-> <<>> ]

set_properties(l, props) ==
    [l EXCEPT !.props = [k \in (DOMAIN l.props) \cup (DOMAIN props) |->
                            IF k \in DOMAIN props THEN props[k] ELSE l.props[k]]]

\* activate that flips the layer's visibility.
activateToggle(l) == [l EXCEPT !.active = ~l.active]
activate(l) == [l EXCEPT !.active = TRUE]

\* The table `data` (one array per field) as point records.
NumRows(data) ==
    IF DOMAIN data = {} THEN 0 ELSE Len(data[CHOOSE f \in DOMAIN data : TRUE])
Rows(data) ==
    [i \in 1..NumRows(data) |-> [f \in DOMAIN data |-> data[f][i]]]

\* update that ignores purge_all.
updateNoPurge(l, data, purge) == [l EXCEPT !.rows = l.rows \o Rows(data)]
update(l, data, purge) ==
    [l EXCEPT !.rows = IF purge THEN Rows(data) ELSE l.rows \o Rows(data)]

\* The five numbers of fly_to, as the view they name.
FlyToView(v) ==
    [lat |-> v[1], lng |-> v[2], zoom |-> v[3], rotation |-> v[4], angle |-> v[5]]

\* The length of one unit of AltUnit, in centimeters.
AltUnitInCm(unit) ==
    CASE unit = "MegaParsecs" -> Len_(1, 1)
      [] unit = "Meters"      -> Len_(100, 0)
      [] OTHER                -> Len_(0, 0)

----------------------------------------------------------------------------
(* Inputs *)

\* Tracer particles a file may hold: coordinates in centimeters, emissivity.
Particles ==
    { [x |-> Len_(1, 1),  y |-> Len_(2, 1),  z |-> Len_(2, 1), radio |-> Sci(3, -30)],
      [x |-> Len_(-2, 1), y |-> Len_(0, 1),  z |-> Len_(1, 1), radio |-> Sci(1, -45)],
      [x |-> Len_(0, 1),  y |-> Len_(0, 1),  z |-> Len_(3, 1), radio |-> Sci(7, -20)],
      [x |-> Len_(3, 0),  y |-> Len_(-1, 0), z |-> Len_(0, 0), radio |-> Sci(3, -30)] }

FieldNames == {"x", "y", "z", "radio"}

Clouds == UNION {[1..n -> Particles] : n \in 0..MaxPoints}

Columns(ps, names) == [f \in names |-> [i \in DOMAIN ps |-> ps[i][f]]]

Files ==
    { [exists |-> FALSE, fields |-> Columns(<<>>, {})] }
    \cup { [exists |-> TRUE, fields |-> Columns(ps, FieldNames \ lost)] :
             ps \in Clouds, lost \in {{}} \cup {{f} : f \in FieldNames} }

DefaultView ==
    [lat |-> Sci(0, 0), lng |-> Sci(0, 0), zoom |-> Sci(6, 1),
     rotation |-> Sci(0, 0), angle |-> Sci(0, 0)]
Waypoints ==
    { [lat |-> Sci(24, 0), lng |-> Sci(-6, 0), zoom |-> Sci(6, 6),
       rotation |-> Sci(0, 0), angle |-> Sci(0, 0)],
      [lat |-> Sci(40, 0), lng |-> Sci(-10, 0), zoom |-> Sci(6, 10),
       rotation |-> Sci(0, 0), angle |-> Sci(0, 0)] }
InitialViews == {DefaultView} \cup Waypoints

----------------------------------------------------------------------------
(* The script *)

Init ==
    /\ pc = 1
    /\ awaiting = FALSE
    /\ failedAt = 0
    /\ executed = <<>>
    /\ env = [n \in {} |-> 0]
    /\ handle = "unopened"
    /\ opens = 0
    /\ closes = 0
    /\ reads = <<>>
    /\ pending = <<>>
    /\ reply = <<>>
    /\ issued = <<>>
    /\ appUp \in BOOLEAN
    /\ layer = <<>>
    /\ view \in InitialViews
    /\ target = view
    /\ flying = FALSE
    /\ flySteps = 0
    /\ loaded = <<>>
    /\ observed = <<>>
    /\ file \in Files
    /\ client = <<>>

Running == pc \in 1..Len(Script)
At(stmt) == Running /\ ~awaiting /\ Script[pc] = stmt

\* OnError that swallows the exception and goes on.
OnErrorResume(i) == i + 1
\* An uncaught exception ends the run: no statement follows.
OnError(i) == Halted

Start == executed' = Append(executed, pc)
Succeed == pc' = pc + 1 /\ failedAt' = failedAt
Raise == pc' = OnError(pc) /\ failedAt' = pc

Args(op) ==
    CASE op = "new_layer" ->
            [frame |-> LayerFrame, name |-> LayerName, fields |-> LayerFields]
      [] op = "set_properties" -> [props |-> env["props_dict"]]
      [] op = "update" ->
            [data |-> env["data"], purge_all |-> purge_all, fly_to |-> fly_to]
      [] OTHER -> [none |-> TRUE]

\* A remote statement sends its request and blocks.
Issue ==
    /\ \E op \in RemoteCalls :
          /\ At(op)
          /\ pending' = Append(pending, [op |-> op, args |-> Args(op)])
          /\ issued' = Append(issued, op)
    /\ awaiting' = TRUE
    /\ Start
    /\ UNCHANGED <<pc, failedAt, env, handle, opens, closes, reads, reply>>
    /\ UNCHANGED <<appVars, file, client>>

Result(op, val) ==
    CASE op = "connect"   -> Bind(env, "wwt", Str("WWTWindowsClient"))
      [] op = "new_layer" -> Bind(env, "layer", Str(LayerName))
      [] op = "get_state" -> Bind(env, "Out", val)
      [] OTHER            -> env

\* The blocked statement takes the answer: it returns, or it raises.
Return ==
    /\ Running /\ awaiting /\ reply # <<>>
    /\ reply' = <<>>
    /\ awaiting' = FALSE
    /\ IF reply[1].ok
       THEN Succeed /\ env' = Result(Script[pc], reply[1].val)
       ELSE Raise /\ env' = env
    /\ UNCHANGED <<executed, handle, opens, closes, reads, pending, issued>>
    /\ UNCHANGED <<appVars, file, client>>

AssignPropsDict ==
    /\ At("props_dict")
    /\ Start /\ Succeed
    /\ env' = Bind(env, "props_dict", props_dict)
    /\ UNCHANGED <<awaiting, handle, opens, closes, reads>>
    /\ UNCHANGED <<wireVars, appVars, file, client>>

OpenFile ==
    /\ At("open")
    /\ Start
    /\ IF file.exists
       THEN Succeed /\ handle' = "open" /\ opens' = opens + 1
       ELSE Raise /\ UNCHANGED <<handle, opens>>
    /\ UNCHANGED <<awaiting, env, closes, reads>>
    /\ UNCHANGED <<wireVars, appVars, file, client>>

AssignCmPerMpc ==
    /\ At("cm_per_mpc")
    /\ Start /\ Succeed
    /\ env' = Bind(env, "cm_per_mpc", cm_per_mpc)
    /\ UNCHANGED <<awaiting, handle, opens, closes, reads>>
    /\ UNCHANGED <<wireVars, appVars, file, client>>

\* f[name][:], which needs the file open and the dataset present.
Readable(name) == handle = "open" /\ name \in DOMAIN file.fields

\* ToMpc that multiplies by the factor.
ToMpcTimes(arr, factor) == ArrayTimes(arr, factor)
\* x = f["x"][:] / cm_per_mpc, and the same for y and z.
ToMpc(arr, factor) == ArrayOver(arr, factor)

ReadCoord ==
    /\ \E name \in {"x", "y", "z"} :
          /\ At("read_" \o name)
          /\ reads' = Append(reads, <<name, handle>>)
          /\ IF Readable(name)
             THEN Succeed
                  /\ env' = Bind(env, name, ToMpc(file.fields[name], env["cm_per_mpc"]))
             ELSE Raise /\ env' = env
    /\ Start
    /\ UNCHANGED <<awaiting, handle, opens, closes>>
    /\ UNCHANGED <<wireVars, appVars, file, client>>

ReadRadio ==
    /\ At("read_radio")
    /\ Start
    /\ reads' = Append(reads, <<"radio", handle>>)
    /\ IF Readable("radio")
       THEN Succeed /\ env' = Bind(env, "c", file.fields["radio"])
       ELSE Raise /\ env' = env
    /\ UNCHANGED <<awaiting, handle, opens, closes>>
    /\ UNCHANGED <<wireVars, appVars, file, client>>

MapColors ==
    /\ At("map_array_to_colors")
    /\ Start
    /\ \E ok \in BOOLEAN :
          IF ok
          THEN Succeed
               /\ env' = Bind(env, "color", map_array_to_colors(env["c"], Cmap, Vmin, Vmax))
          ELSE Raise /\ env' = env
    /\ UNCHANGED <<awaiting, handle, opens, closes, reads>>
    /\ UNCHANGED <<wireVars, appVars, file, client>>

Convert ==
    /\ At("convert_xyz_to_spherical")
    /\ Start
    /\ \E ok \in BOOLEAN :
          IF ok
          THEN Succeed
               /\ env' = Bind(env, "data",
                              convert_xyz_to_spherical(env["x"], env["y"], env["z"]))
          ELSE Raise /\ env' = env
    /\ UNCHANGED <<awaiting, handle, opens, closes, reads>>
    /\ UNCHANGED <<wireVars, appVars, file, client>>

SetColor ==
    /\ At("set_color")
    /\ Start /\ Succeed
    /\ env' = Bind(env, "data", Bind(env["data"], ColorKey, env["color"]))
    /\ UNCHANGED <<awaiting, handle, opens, closes, reads>>
    /\ UNCHANGED <<wireVars, appVars, file, client>>

CloseFile ==
    /\ At("close")
    /\ Start /\ Succeed
    /\ handle' = "closed"
    /\ closes' = closes + 1
    /\ UNCHANGED <<awaiting, env, opens, reads>>
    /\ UNCHANGED <<wireVars, appVars, file, client>>

----------------------------------------------------------------------------
(* The application *)

Serving(op) == pending # <<>> /\ Head(pending).op = op /\ reply = <<>>
Request == Head(pending).args
Answer(ok, val) == reply' = <<[ok |-> ok, val |-> val]>> /\ pending' = Tail(pending)

\* WWTWindowsClient() reaches the application, or fails to.
HandleConnect ==
    /\ Serving("connect")
    /\ Answer(appUp, <<>>)
    /\ UNCHANGED <<scriptVars, issued, appVars, file, client>>

HandleNewLayer ==
    /\ Serving("new_layer")
    /\ \E ok \in BOOLEAN :
          /\ Answer(ok, <<>>)
          /\ IF ok
             THEN \E isActive \in BOOLEAN :
                     layer' = <<new_layer(Request.frame, Request.name,
                                          Request.fields, isActive)>>
             ELSE layer' = layer
    /\ UNCHANGED <<scriptVars, issued, file, client>>
    /\ UNCHANGED <<appUp, view, target, flying, flySteps, loaded, observed>>

HandleSetProperties ==
    /\ Serving("set_properties")
    /\ \E ok \in BOOLEAN :
          /\ Answer(ok, <<>>)
          /\ layer' = IF ok THEN <<set_properties(layer[1], Request.props)>> ELSE layer
    /\ UNCHANGED <<scriptVars, issued, file, client>>
    /\ UNCHANGED <<appUp, view, target, flying, flySteps, loaded, observed>>

HandleActivate ==
    /\ Serving("activate")
    /\ \E ok \in BOOLEAN :
          /\ Answer(ok, <<>>)
          /\ layer' = IF ok THEN <<activate(layer[1])>> ELSE layer
    /\ UNCHANGED <<scriptVars, issued, file, client>>
    /\ UNCHANGED <<appUp, view, target, flying, flySteps, loaded, observed>>

\* update loads the data and starts the fly-to.
HandleUpdate ==
    /\ Serving("update")
    /\ \E ok \in BOOLEAN :
          /\ Answer(ok, <<>>)
          /\ IF ok
             THEN /\ layer' = <<update(layer[1], Request.data, Request.purge_all)>>
                  /\ loaded' = <<layer[1].props>>
                  /\ target' = FlyToView(Request.fly_to)
                  /\ flying' = TRUE
                  /\ flySteps' = 0
             ELSE UNCHANGED <<layer, loaded, target, flying, flySteps>>
    /\ UNCHANGED <<scriptVars, issued, file, client>>
    /\ UNCHANGED <<appUp, view, observed>>

HandleGetState ==
    /\ Serving("get_state")
    /\ \E ok \in BOOLEAN :
          /\ Answer(ok, view)
          /\ observed' = IF ok THEN <<[state |-> view, flying |-> flying]>> ELSE observed
    /\ UNCHANGED <<scriptVars, issued, file, client>>
    /\ UNCHANGED <<appUp, layer, view, target, flying, flySteps, loaded>>

\* One frame of the fly-to animation.
FlyStep ==
    /\ flying /\ flySteps < MaxFlySteps
    /\ view' \in Waypoints
    /\ flySteps' = flySteps + 1
    /\ UNCHANGED <<scriptVars, wireVars, file, client>>
    /\ UNCHANGED <<appUp, layer, target, flying, loaded, observed>>

\* The fly-to reaches its target and stops.
FlyArrive ==
    /\ flying
    /\ view' = target
    /\ flying' = FALSE
    /\ UNCHANGED <<scriptVars, wireVars, file, client>>
    /\ UNCHANGED <<appUp, layer, target, flySteps, loaded, observed>>

Next ==
    \/ Issue
    \/ Return
    \/ AssignPropsDict
    \/ OpenFile
    \/ AssignCmPerMpc
    \/ ReadCoord
    \/ ReadRadio
    \/ MapColors
    \/ Convert
    \/ SetColor
    \/ CloseFile
    \/ HandleConnect
    \/ HandleNewLayer
    \/ HandleSetProperties
    \/ HandleActivate
    \/ HandleUpdate
    \/ HandleGetState
    \/ FlyStep
    \/ FlyArrive

Spec == Init /\ [][Next]_vars

\* The application keeps animating a fly-to it has started.
FairSpec == Spec /\ WF_vars(FlyStep) /\ WF_vars(FlyArrive)

----------------------------------------------------------------------------
(* The layer operations on their own: any layer, any arguments, any order *)

\* The table the data-loading cell builds from a cloud of particles.
Table(ps) ==
    LET col(f) == ToMpc(Columns(ps, {"x", "y", "z"})[f], cm_per_mpc)
    IN  Bind(convert_xyz_to_spherical(col("x"), col("y"), col("z")), ColorKey,
             map_array_to_colors(Columns(ps, {"radio"})["radio"], Cmap, Vmin, Vmax))

Tables == {Table(ps) : ps \in {c \in Clouds : Len(c) <= MaxTableRows}}

PropSettings == {props_dict, [ScaleFactor |-> Str("8")], [AltUnit |-> Str("Meters")]}

Layers ==
    { [new_layer(LayerFrame, LayerName, LayerFields, a) EXCEPT !.props = p, !.rows = Rows(t)] :
        a \in BOOLEAN, p \in {NoProps, props_dict}, t \in Tables }

NoTable == [f \in {} |-> <<>>]

Applied(op, data, purge, props) ==
    client' = <<[op |-> op, before |-> layer[1], data |-> data,
                 purge_all |-> purge, props |-> props]>>

InitLayer ==
    /\ pc = Halted
    /\ awaiting = FALSE
    /\ failedAt = 0
    /\ executed = <<>>
    /\ env = [n \in {} |-> 0]
    /\ handle = "unopened"
    /\ opens = 0
    /\ closes = 0
    /\ reads = <<>>
    /\ pending = <<>>
    /\ reply = <<>>
    /\ issued = <<>>
    /\ appUp = TRUE
    /\ layer \in {<<l>> : l \in Layers}
    /\ view = DefaultView
    /\ target = view
    /\ flying = FALSE
    /\ flySteps = 0
    /\ loaded = <<>>
    /\ observed = <<>>
    /\ file = [exists |-> FALSE, fields |-> Columns(<<>>, {})]
    /\ client = <<>>

LayerUpdate ==
    /\ \E data \in Tables, purge \in BOOLEAN :
          /\ Len(update(layer[1], data, purge).rows) <= MaxRows
          /\ layer' = <<update(layer[1], data, purge)>>
          /\ Applied("update", data, purge, NoProps)
    /\ UNCHANGED <<scriptVars, wireVars, file>>
    /\ UNCHANGED <<appUp, view, target, flying, flySteps, loaded, observed>>

LayerActivate ==
    /\ layer' = <<activate(layer[1])>>
    /\ Applied("activate", NoTable, FALSE, NoProps)
    /\ UNCHANGED <<scriptVars, wireVars, file>>
    /\ UNCHANGED <<appUp, view, target, flying, flySteps, loaded, observed>>

LayerSetProperties ==
    /\ \E props \in PropSettings :
          /\ layer' = <<set_properties(layer[1], props)>>
          /\ Applied("set_properties", NoTable, FALSE, props)
    /\ UNCHANGED <<scriptVars, wireVars, file>>
    /\ UNCHANGED <<appUp, view, target, flying, flySteps, loaded, observed>>

NextLayer == LayerUpdate \/ LayerActivate \/ LayerSetProperties

SpecLayer == InitLayer /\ [][NextLayer]_vars

----------------------------------------------------------------------------
(* Properties *)

Last(s) == s[Len(s)]
Index(stmt) == CHOOSE i \in 1..Len(Script) : Script[i] = stmt
\* The statement has run to its end without raising.
Done(stmt) == pc > Index(stmt) \/ (pc = Halted /\ failedAt > Index(stmt))
RunOver == pc = Halted \/ pc = Finished
Outstanding == Len(pending) + Len(reply)

CallOrder ==
    <<"connect", "new_layer", "set_properties", "activate", "update", "get_state">>

\* C1 as stated: every run issues each of the six remote calls exactly once, in
\* the fixed order, one at a time.
C1_EveryRunIssuesAllCalls ==
    /\ IsPrefix(issued, CallOrder)
    /\ Outstanding <= 1
    /\ RunOver => issued = CallOrder

\* C1, amended: the remote calls issued are always an initial part of the fixed
\* order connect, new_layer, set_properties, activate, update, get_state (so each
\* is issued at most once and only after the ones before it), a run that
\* completes has issued each exactly once, and at most one call is outstanding
\* at any time, the one the script is blocked in.
C1_CallsInOrderOneAtATime ==
    /\ IsPrefix(issued, CallOrder)
    /\ pc = Finished => issued = CallOrder
    /\ Outstanding <= 1
    /\ Outstanding = 1 => awaiting /\ Script[pc] = Last(issued)

C1_Witness == pc = Finished /\ Len(issued) = 6

ExpectedView ==
    [lat |-> Sci(48, 0), lng |-> Sci(-12, 0), zoom |-> Sci(6, 11),
     rotation |-> Sci(0, 0), angle |-> Sci(0, 0)]

\* C2: a fly-to started by update eventually stops, and a view that get_state
\* reads once the fly-to has stopped is latitude 48, longitude -12, zoom 6e11,
\* rotation 0, angle 0.
C2_FlyToReached ==
    /\ flying ~> ~flying
    /\ [](observed # <<>> /\ ~observed[1].flying => observed[1].state = ExpectedView)

C2_Witness ==
    /\ observed # <<>> /\ ~observed[1].flying
    /\ "Out" \in DOMAIN env /\ flySteps > 0

\* C3: the file is opened at most once and closed at most once, a run that
\* completes has opened it once, closed it once and read x, y, z and radio, and
\* every read of the file found the handle open (none came after f.close()).
C3_FileHandle ==
    /\ opens <= 1 /\ closes <= opens
    /\ pc = Finished =>
          /\ opens = 1 /\ closes = 1 /\ handle = "closed"
          /\ {reads[i][1] : i \in DOMAIN reads} = FieldNames
          /\ Len(reads) = 4
    /\ \A i \in DOMAIN reads : reads[i][2] = "open"

C3_Witness == pc = Finished /\ closes = 1 /\ Len(reads) = 4

\* C4: once a statement has raised, the run is halted, the statement that raised
\* is the last one started, and no statement is ever started twice.
C4_ErrorStopsRun ==
    /\ failedAt # 0 =>
          /\ pc = Halted /\ ~awaiting
          /\ Last(executed) = failedAt
          /\ Outstanding = 0
    /\ \A i, j \in DOMAIN executed : executed[i] = executed[j] => i = j

C4_Witness ==
    /\ failedAt # 0 /\ Script[failedAt] = "set_properties"
    /\ pc = Halted /\ flySteps = 0

\* C5: after update with purge_all = True the layer holds exactly the records of
\* data, whatever it held before.
C5_PurgeAllReplaces ==
    client # <<>> /\ client[1].op = "update" /\ client[1].purge_all =>
        LET data == client[1].data
            rows == layer[1].rows
        IN  /\ Len(rows) = NumRows(data)
            /\ \A i \in DOMAIN rows :
                  /\ DOMAIN rows[i] = DOMAIN data
                  /\ \A f \in DOMAIN data : rows[i][f] = data[f][i]

C5_Witness ==
    /\ client # <<>> /\ client[1].op = "update" /\ client[1].purge_all
    /\ client[1].before.rows # <<>>
    /\ NumRows(client[1].data) > 0
    /\ client[1].before.rows # layer[1].rows

EightKeys ==
    {"CoordinatesType", "MarkerScale", "PointScaleType", "ScaleFactor",
     "ShowFarSide", "TimeSeries", "AltUnit", "RaUnits"}

IsPropsMapping(p) ==
    /\ DOMAIN p = EightKeys
    /\ \A k \in DOMAIN p : p[k].type = "str"
    /\ p["ScaleFactor"].val = "16"
    /\ p["ShowFarSide"].val = "True"
    /\ p["TimeSeries"].val = "False"

\* C6: the mapping passed to set_properties has exactly the eight keys with
\* string values, and the layer has exactly these properties from the return of
\* set_properties onward, and had them when update loaded the data.
C6_PropertiesCarried ==
    /\ \A i \in DOMAIN pending :
          pending[i].op = "set_properties" => IsPropsMapping(pending[i].args.props)
    /\ Done("set_properties") =>
          /\ IsPropsMapping(layer[1].props)
          /\ layer[1].props = env["props_dict"]
    /\ loaded # <<>> => IsPropsMapping(loaded[1])

C6_Witness == loaded # <<>> /\ Done("update") /\ layer[1].props = loaded[1]

FourFields == {"RA", "DEC", "ALT", "color"}

\* The number of particles in the file.
FilePoints == Len(file.fields["x"])

IsPointTable(data, declared) ==
    /\ DOMAIN data = FourFields
    /\ DOMAIN data = Range(declared)
    /\ \A f \in DOMAIN data : Len(data[f]) = FilePoints
    /\ \A r \in Range(Rows(data)) : DOMAIN r = FourFields

\* C7: the data passed to update has exactly the fields RA, DEC, ALT and color,
\* the fields declared for the layer by new_layer, with one value per particle
\* of the file in each, so every point record has these four fields.
C7_RecordsHaveDeclaredFields ==
    /\ \A i \in DOMAIN pending :
          pending[i].op = "update" => IsPointTable(pending[i].args.data, layer[1].fields)
    /\ Done("update") =>
          /\ Len(layer[1].rows) = FilePoints
          /\ \A r \in Range(layer[1].rows) : DOMAIN r = Range(layer[1].fields)

C7_Witness ==
    /\ pending # <<>> /\ pending[1].op = "update"
    /\ NumRows(pending[1].args.data) = 2

\* C8: activate on a layer that is already active leaves the layer as it was;
\* on any layer it leaves the layer active with its properties and data
\* unchanged, and a second activate would change nothing.
C8_ActivateIdempotent ==
    client # <<>> /\ client[1].op = "activate" =>
        /\ layer[1].active
        /\ layer[1].props = client[1].before.props
        /\ layer[1].rows = client[1].before.rows
        /\ client[1].before.active => layer[1] = client[1].before
        /\ activate(layer[1]) = layer[1]

C8_Witness ==
    /\ client # <<>> /\ client[1].op = "activate" /\ client[1].before.active
    /\ client[1].before.rows # <<>>
    /\ client[1].before.props # NoProps

AfterOpen ==
    {"cm_per_mpc", "read_x", "read_y", "read_z", "read_radio",
     "map_array_to_colors", "convert_xyz_to_spherical", "set_color"}

\* C9: when a statement between the open and f.close() has raised, f.close() has
\* not run and the handle is open.
C9_HandleLeftOpenOnError ==
    failedAt # 0 /\ Script[failedAt] \in AfterOpen =>
        handle = "open" /\ closes = 0 /\ opens = 1

C9_Witness ==
    /\ failedAt # 0 /\ Script[failedAt] = "map_array_to_colors"
    /\ handle = "open" /\ pc = Halted

\* The radial distance of particle i of the file, in centimeters.
FileRadius(i) == Hypot(file.fields["x"][i], file.fields["y"][i], file.fields["z"][i])

\* alt, a number of units of `unit` centimeters each, is the length r.
SameLength(alt, unit, r) ==
    /\ alt.exact /\ r.exact
    /\ alt.sq * unit.c * unit.c = r.sq
    /\ r.sq # 0 => alt.k + unit.k = r.k

\* C10: the arrays x, y and z are the file's arrays divided by centimeters per
\* megaparsec, the layer's AltUnit is MegaParsecs when the data is loaded, and
\* each ALT loaded, taken in the layer's AltUnit, is the particle's radial
\* distance in the file.
C10_AltInDeclaredUnit ==
    /\ \A n \in {"x", "y", "z"} :
          n \in DOMAIN env =>
             \A i \in DOMAIN env[n] : Mul(env[n][i], cm_per_mpc) = file.fields[n][i]
    /\ loaded # <<>> =>
          /\ loaded[1]["AltUnit"] = Str("MegaParsecs")
          /\ \A i \in DOMAIN layer[1].rows :
                SameLength(layer[1].rows[i]["ALT"],
                           AltUnitInCm(loaded[1]["AltUnit"].val), FileRadius(i))

C10_Witness ==
    /\ loaded # <<>> /\ Len(layer[1].rows) = 2
    /\ layer[1].rows[1]["ALT"].sq # 0
    /\ FileRadius(2).k = 0

====
